---- MODULE Spec2Model ----
(***************************************************************************)
(* Model of backend/server.py: the three platform adapters                 *)
(* (PlatformDataFetcher), the recommendation engine                        *)
(* (AIRecommendationEngine), the analyze-profile and lookup endpoints and  *)
(* the two MongoDB collections they write and read.                        *)
(*                                                                         *)
(* Python values are modelled as follows.  A dict is a record (or a        *)
(* function on strings); dict.get(k, d) is Get(rec, k, d).  A list is a    *)
(* sequence.  None is the token None.  An exception is a record with       *)
(* raised |-> TRUE carried out of the operator that raises it.             *)
(***************************************************************************)
EXTENDS Integers, Sequences, FiniteSets, TLC

VARIABLES
    adCall,            \* an adapter invocation: platform, username, network outcomes
    adResult,          \* what the adapter returned or raised (NotRun before it ran)
    pc,                \* per request: the suspension point analyze_user_profile is at
    request,           \* per request: the AnalyzeProfileRequest
    activity_data,     \* per request: the dict of line 398
    recommendations,   \* per request: what generate_recommendations returned
    user_profile,      \* per request: the UserProfile of line 428
    ai_recommendation, \* per request: the AIRecommendation of line 443
    response,          \* per request: what the caller received
    history,           \* per request: the outcomes of its external calls (not program state)
    user_profiles,     \* db.user_profiles, in insertion order
    ai_recommendations,\* db.ai_recommendations, in insertion order
    uuids,             \* how many uuid4() values were generated
    now,               \* datetime.now(timezone.utc)
    lookup             \* the get_user_analysis call in progress, or the last one
                       \* (read_at: how many recommendation records it read over)

adapterVars == <<adCall, adResult>>
requestVars == <<pc, request, activity_data, recommendations, user_profile,
                 ai_recommendation, response, history>>
storeVars == <<user_profiles, ai_recommendations, uuids, now>>
vars == <<adapterVars, requestVars, storeVars, lookup>>

(***************************************************************************)
(* Python helpers                                                          *)
(***************************************************************************)
None == "None"

\* dict.get(key, default)
Get(d, key, default) == IF key \in DOMAIN d THEN d[key] ELSE default

\* truthiness of an Optional[str]
Truthy(s) == s # None /\ s # ""

Digit(d) ==
    CASE d = 0 -> "0" [] d = 1 -> "1" [] d = 2 -> "2" [] d = 3 -> "3"
      [] d = 4 -> "4" [] d = 5 -> "5" [] d = 6 -> "6" [] d = 7 -> "7"
      [] d = 8 -> "8" [] d = 9 -> "9"

\* str(n) for an int n >= 0
RECURSIVE NatToStr(_)
NatToStr(n) == IF n < 10 THEN Digit(n) ELSE NatToStr(n \div 10) \o Digit(n % 10)

\* round(100 * a / s, 1) for ints a >= 0, s >= 1, in tenths.  Python rounds
\* the float to the nearest tenth, ties to even; for s < 16 no quotient is a
\* tie and the float error (1e-14) never crosses one.
Round1Tenths(a, s) ==
    LET num == 1000 * a
        q   == num \div s
        r   == num % s
    IN  IF 2 * r > s THEN q + 1
        ELSE IF 2 * r < s THEN q
        ELSE IF q % 2 = 0 THEN q ELSE q + 1

\* repr() of a float given in tenths: always one decimal digit ("0.0", "25.0")
FloatStr(t) == NatToStr(t \div 10) \o "." \o Digit(t % 10)

\* str(e) of a starlette HTTPException: "<status_code>: <detail>"
HTTPExceptionStr(e) == NatToStr(e.status_code) \o ": " \o e.detail

\* str(e) of any exception the model carries
ExcStr(e) == IF "status_code" \in DOMAIN e THEN HTTPExceptionStr(e) ELSE e.message

\* the value of a variable whose code has not run yet
NotRun == [pending |-> TRUE]

Raise(e) == [raised |-> TRUE, exc |-> e]
Return(v) == [raised |-> FALSE, value |-> v]

HTTPException(code, detail) == [status_code |-> code, detail |-> detail]
Exception(msg) == [message |-> msg]

\* the sequences over S of length at most n
SeqsUpTo(S, n) == UNION {[1..k -> S] : k \in 0..n}

(***************************************************************************)
(* Network outcomes of one HTTP GET: the call raises (connection error),   *)
(* or answers with a status and, for 200, a JSON body.                     *)
(***************************************************************************)
NetErr == [kind |-> "neterr"]
Resp(status) == [kind |-> "resp", status |-> status]
Ok(body) == [kind |-> "resp", status |-> 200, body |-> body]
NetErrStr == "Cannot connect to host"

\* the client's total timeout expires: asyncio.TimeoutError(), whose str() is ""
Timeout == [kind |-> "neterr", timeout |-> TRUE]

\* str(e) of the exception a call raised
NetExcStr(resp) == IF "timeout" \in DOMAIN resp THEN "" ELSE NetErrStr

(***************************************************************************)
(* PlatformDataFetcher.fetch_github_stats                                  *)
(***************************************************************************)
TopLanguagesLimit == 5
RecentReposLimit == 5

\* truthiness of repo.get(key): absent, None, "" and 0 are falsy
HasLanguage(repo) == Truthy(Get(repo, "language", None))
HasStars(repo) == Get(repo, "stargazers_count", 0) # 0

\* lines 97-99
RECURSIVE TotalStars(_, _)
TotalStars(repos_data, i) ==
    IF i = 0 THEN 0
    ELSE TotalStars(repos_data, i - 1)
         + (IF HasStars(repos_data[i]) THEN repos_data[i].stargazers_count ELSE 0)

\* languages[lang] = languages.get(lang, 0) + 1 on a dict kept as the sequence
\* of its items in insertion order
RECURSIVE Bump(_, _, _)
Bump(items, lang, i) ==
    IF i > Len(items) THEN Append(items, [language |-> lang, count |-> 1])
    ELSE IF items[i].language = lang
         THEN [items EXCEPT ![i].count = @ + 1]
         ELSE Bump(items, lang, i + 1)

\* lines 100-101 over the repositories 1..i
RECURSIVE Languages(_, _)
Languages(repos_data, i) ==
    IF i = 0 THEN <<>>
    ELSE LET before == Languages(repos_data, i - 1)
         IN  IF HasLanguage(repos_data[i])
             THEN Bump(before, repos_data[i].language, 1)
             ELSE before

\* a mutant of InsertDesc: the item goes before the entries of equal count
RECURSIVE InsertDescBeforeEqual(_, _, _)
InsertDescBeforeEqual(sorted, item, i) ==
    IF i > Len(sorted) THEN Append(sorted, item)
    ELSE IF sorted[i].count <= item.count
         THEN SubSeq(sorted, 1, i - 1) \o <<item>> \o SubSeq(sorted, i, Len(sorted))
         ELSE InsertDescBeforeEqual(sorted, item, i + 1)

\* a stable insertion of item into a sequence sorted by descending count:
\* after every entry whose count is at least its own
RECURSIVE InsertDesc(_, _, _)
InsertDesc(sorted, item, i) ==
    IF i > Len(sorted) THEN Append(sorted, item)
    ELSE IF sorted[i].count < item.count
         THEN SubSeq(sorted, 1, i - 1) \o <<item>> \o SubSeq(sorted, i, Len(sorted))
         ELSE InsertDesc(sorted, item, i + 1)

\* sorted(languages.items(), key=lambda x: x[1], reverse=True): stable
RECURSIVE SortedDesc(_, _)
SortedDesc(items, i) ==
    IF i = 0 THEN <<>>
    ELSE InsertDesc(SortedDesc(items, i - 1), items[i], 1)

Take(seq, n) == SubSeq(seq, 1, IF Len(seq) < n THEN Len(seq) ELSE n)

\* line 119
TopLanguages(repos_data) ==
    LET languages == Languages(repos_data, Len(repos_data))
    IN  Take(SortedDesc(languages, Len(languages)), TopLanguagesLimit)

\* lines 103-105
RECURSIVE RecentCommits(_, _)
RecentCommits(events_data, i) ==
    IF i = 0 THEN 0
    ELSE RecentCommits(events_data, i - 1)
         + (IF Get(events_data[i], "type", None) = "PushEvent"
            THEN Len(Get(Get(events_data[i], "payload", <<>>), "commits", <<>>))
            ELSE 0)

\* line 120
RecentRepos(repos_data) ==
    LET first == Take(repos_data, RecentReposLimit)
    IN  [i \in DOMAIN first |->
            [name |-> first[i].name, language |-> Get(first[i], "language", None)]]

GithubSummary(user_data, repos_data, events_data) ==
    [profile |->
        [name         |-> Get(user_data, "name", None),
         public_repos |-> Get(user_data, "public_repos", 0),
         followers    |-> Get(user_data, "followers", 0),
         following    |-> Get(user_data, "following", 0),
         created_at   |-> Get(user_data, "created_at", None),
         bio          |-> Get(user_data, "bio", None)],
     activity |->
        [total_stars    |-> TotalStars(repos_data, Len(repos_data)),
         recent_commits |-> RecentCommits(events_data, Len(events_data)),
         top_languages  |-> TopLanguages(repos_data),
         recent_repos   |-> RecentRepos(repos_data)]]

GithubError(msg) ==
    Raise(HTTPException(400, "Error fetching GitHub data: " \o msg))

\* lines 85 and 90: a secondary call that answers
GithubSecondary(resp) == IF resp.status = 200 THEN resp.body ELSE <<>>

\* net.user, net.repos and net.events are the outcomes of the three GETs.
\* Every exception inside the try block, the 404 of line 79 included, is
\* re-raised by the except branch as HTTPException(400).
fetch_github_stats(username, net) ==
    IF net.user.kind = "neterr" THEN GithubError(NetExcStr(net.user))
    ELSE IF net.user.status # 200
    THEN GithubError(HTTPExceptionStr(
            HTTPException(404, "GitHub user " \o username \o " not found")))
    ELSE IF net.repos.kind = "neterr" THEN GithubError(NetExcStr(net.repos))
    ELSE IF net.events.kind = "neterr" THEN GithubError(NetExcStr(net.events))
    ELSE LET repos_data  == GithubSecondary(net.repos)
             events_data == GithubSecondary(net.events)
         IN  IF \E i \in DOMAIN Take(repos_data, RecentReposLimit) :
                    "name" \notin DOMAIN repos_data[i]
             THEN GithubError("'name'")
             ELSE Return(GithubSummary(net.user.body, repos_data, events_data))

(***************************************************************************)
(* PlatformDataFetcher.fetch_leetcode_stats                                *)
(***************************************************************************)
\* str.lower() on the difficulty labels the site uses
Lower(s) ==
    CASE s = "All" -> "all" [] s = "Easy" -> "easy" [] s = "Medium" -> "medium"
      [] s = "Hard" -> "hard" [] OTHER -> s

\* lines 146-161: the last entry of each difficulty wins
RECURSIVE SolvedCount(_, _, _)
SolvedCount(ac_submission, difficulty, i) ==
    IF i = 0 THEN 0
    ELSE IF Lower(Get(ac_submission[i], "difficulty", "")) = difficulty
         THEN Get(ac_submission[i], "count", 0)
         ELSE SolvedCount(ac_submission, difficulty, i - 1)

IsAll(item) == Get(item, "difficulty", None) = "All"

\* the index of the first 'All' entry at or after i, as next(...) finds it; 0: none
RECURSIVE FirstAll(_, _)
FirstAll(seq, i) ==
    IF i > Len(seq) THEN 0
    ELSE IF IsAll(seq[i]) THEN i
    ELSE FirstAll(seq, i + 1)

\* line 165
TotalAccepted(total_submissions) ==
    LET i == FirstAll(total_submissions, 1)
    IN  IF i = 0 THEN 0 ELSE Get(total_submissions[i], "count", 0)

\* a mutant of TotalSubmitted: the default of next(...) is 0
TotalSubmittedDefaultZero(total_submissions) ==
    LET i == FirstAll(total_submissions, 1)
    IN  IF i = 0 THEN 0 ELSE Get(total_submissions[i], "submissions", 0)

\* line 166
TotalSubmitted(total_submissions) ==
    LET i == FirstAll(total_submissions, 1)
    IN  IF i = 0 THEN 1 ELSE Get(total_submissions[i], "submissions", 0)

Max(a, b) == IF a >= b THEN a ELSE b

\* lines 167 and 185: the rate is a float rounded to one decimal when
\* total_submitted > 0 and the int 0 otherwise; f"{acceptance_rate}%"
AcceptanceRateStr(total_accepted, total_submitted) ==
    IF total_submitted > 0
    THEN FloatStr(Round1Tenths(total_accepted, Max(total_submitted, 1))) \o "%"
    ELSE NatToStr(0) \o "%"

LeetcodeErrorSummary(username, e) ==
    [profile  |-> [username |-> username],
     activity |-> [note |-> "Unable to fetch LeetCode data"],
     error    |-> ExcStr(e)]

LeetcodeSummary(username, data) ==
    LET profile_data      == Get(data, "profile", <<>>)
        submit_stats      == Get(data, "submitStats", <<>>)
        ac_submission     == Get(submit_stats, "acSubmissionNum", <<>>)
        total_submissions == Get(submit_stats, "totalSubmissionNum", <<>>)
        total_accepted    == TotalAccepted(total_submissions)
        total_submitted   == TotalSubmitted(total_submissions)
    IN  [profile |->
            [username      |-> username,
             real_name     |-> Get(profile_data, "realName", "Unknown"),
             ranking       |-> Get(profile_data, "ranking", "N/A"),
             reputation    |-> Get(profile_data, "reputation", 0),
             github_link   |-> Get(profile_data, "githubUrl", ""),
             twitter_link  |-> Get(profile_data, "twitterUrl", ""),
             linkedin_link |-> Get(profile_data, "linkedinUrl", ""),
             about_me      |-> Get(profile_data, "aboutMe", "")],
         activity |->
            [total_solved        |-> SolvedCount(ac_submission, "all", Len(ac_submission)),
             easy_solved         |-> SolvedCount(ac_submission, "easy", Len(ac_submission)),
             medium_solved       |-> SolvedCount(ac_submission, "medium", Len(ac_submission)),
             hard_solved         |-> SolvedCount(ac_submission, "hard", Len(ac_submission)),
             acceptance_rate     |-> AcceptanceRateStr(total_accepted, total_submitted),
             total_submissions   |-> total_accepted,
             contribution_points |-> Get(profile_data, "contributionPoints", 0),
             reputation          |-> Get(profile_data, "reputation", 0)]]

\* a mutant of fetch_leetcode_stats: the except branch re-raises, as the
\* other two adapters do
fetch_leetcode_stats_reraising(username, net) ==
    IF net.user.kind = "neterr"
    THEN Raise(HTTPException(400, "Error fetching LeetCode data: " \o NetExcStr(net.user)))
    ELSE IF net.user.status # 200
    THEN Raise(HTTPException(400, "Error fetching LeetCode data: " \o HTTPExceptionStr(
            HTTPException(404, "LeetCode user " \o username \o " not found"))))
    ELSE IF "malformed" \in DOMAIN net.user.body
    THEN Raise(HTTPException(400, "Error fetching LeetCode data: 'list' object has no attribute 'get'"))
    ELSE Return(LeetcodeSummary(username, net.user.body))

\* net.user is the outcome of the one GET.  Every exception inside the try
\* block (the connection error, the 404 raised for a non-200 status, a body
\* that is not a JSON object) ends in the except branch, which returns.
fetch_leetcode_stats(username, net) ==
    IF net.user.kind = "neterr"
    THEN Return(LeetcodeErrorSummary(username, Exception(NetExcStr(net.user))))
    ELSE IF net.user.status # 200
    THEN Return(LeetcodeErrorSummary(username,
            HTTPException(404, "LeetCode user " \o username \o " not found")))
    ELSE IF "malformed" \in DOMAIN net.user.body
    THEN Return(LeetcodeErrorSummary(username,
            Exception("'list' object has no attribute 'get'")))
    ELSE Return(LeetcodeSummary(username, net.user.body))

(***************************************************************************)
(* PlatformDataFetcher.fetch_codeforces_stats                              *)
(***************************************************************************)
\* lines 220-224 and 229-233: a secondary call that answers
SecondaryResult(resp) ==
    IF resp.status = 200 /\ resp.body.status = "OK" THEN resp.body.result ELSE <<>>

\* line 239: f"{submission['problem']['contestId']}-{submission['problem']['index']}"
ProblemId(submission) ==
    NatToStr(submission.problem.contestId) \o "-" \o submission.problem.index

IsAccepted(submission) == Get(submission, "verdict", None) = "OK"

\* line 239 raises KeyError when an accepted submission's problem has no contestId
HasProblemKeys(submission) ==
    /\ "problem" \in DOMAIN submission
    /\ "contestId" \in DOMAIN submission.problem
    /\ "index" \in DOMAIN submission.problem

\* lines 236-240: the set of problem ids of the accepted submissions
SolvedProblems(submissions_data) ==
    {ProblemId(submissions_data[i]) :
        i \in {j \in DOMAIN submissions_data : IsAccepted(submissions_data[j])}}

\* a mutant of ProblemsSolved: every accepted submission counts
ProblemsSolvedNoDedup(submissions_data) ==
    Cardinality({j \in DOMAIN submissions_data : IsAccepted(submissions_data[j])})

\* line 260: len(solved_problems)
ProblemsSolved(submissions_data) == Cardinality(SolvedProblems(submissions_data))

CodeforcesSummary(user_data, rating_data, submissions_data) ==
    [profile |->
        [handle       |-> Get(user_data, "handle", None),
         first_name   |-> Get(user_data, "firstName", ""),
         last_name    |-> Get(user_data, "lastName", ""),
         country      |-> Get(user_data, "country", ""),
         city         |-> Get(user_data, "city", ""),
         organization |-> Get(user_data, "organization", ""),
         rank         |-> Get(user_data, "rank", "unrated"),
         max_rank     |-> Get(user_data, "maxRank", "unrated")],
     activity |->
        [current_rating        |-> Get(user_data, "rating", 0),
         max_rating            |-> Get(user_data, "maxRating", 0),
         contests_participated |-> Len(rating_data),
         problems_solved       |-> ProblemsSolved(submissions_data),
         total_submissions     |-> Len(submissions_data),
         recent_activity       |-> IF submissions_data # <<>> THEN "Active" ELSE "Inactive"]]

CodeforcesError(msg) ==
    Raise(HTTPException(400, "Error fetching Codeforces data: " \o msg))

\* net.user, net.rating and net.status are the outcomes of the three GETs.
\* Every exception inside the try block is re-raised by the except branch as
\* HTTPException(400).
fetch_codeforces_stats(username, net) ==
    LET not_found == HTTPException(404, "Codeforces user " \o username \o " not found")
    IN  IF net.user.kind = "neterr" THEN CodeforcesError(NetExcStr(net.user))
        ELSE IF net.user.status # 200 THEN CodeforcesError(HTTPExceptionStr(not_found))
        ELSE IF net.user.body.status # "OK" THEN CodeforcesError(HTTPExceptionStr(not_found))
        ELSE IF net.user.body.result = <<>> THEN CodeforcesError("list index out of range")
        ELSE IF net.rating.kind = "neterr" THEN CodeforcesError(NetExcStr(net.rating))
        ELSE IF net.status.kind = "neterr" THEN CodeforcesError(NetExcStr(net.status))
        ELSE LET user_data        == net.user.body.result[1]
                 rating_data      == SecondaryResult(net.rating)
                 submissions_data == SecondaryResult(net.status)
             IN  IF \E i \in DOMAIN submissions_data :
                        /\ IsAccepted(submissions_data[i])
                        /\ ~HasProblemKeys(submissions_data[i])
                 THEN CodeforcesError("'contestId'")
                 ELSE Return(CodeforcesSummary(user_data, rating_data, submissions_data))

(***************************************************************************)
(* AIRecommendationEngine                                                  *)
(*                                                                         *)
(* A str that the code inspects (the domain, the model's text) is a        *)
(* sequence of characters; the None of such a value is NoneChars.  The     *)
(* model's text is a sequence of tokens: "[", "]", ",", "o" (a JSON object *)
(* literal), "1" (a JSON number) and "p" (any other text).                 *)
(***************************************************************************)
NoneChars == <<None>>

LowerChar(c) ==
    CASE c = "W" -> "w" [] c = "E" -> "e" [] c = "B" -> "b" [] OTHER -> c

\* str.lower()
LowerChars(chars) == [i \in DOMAIN chars |-> LowerChar(chars[i])]

\* needle in haystack, for sequences
Contains(haystack, needle) ==
    \E i \in 1..(Len(haystack) - Len(needle) + 1) :
        SubSeq(haystack, i, i + Len(needle) - 1) = needle

FirstRepositoryRec ==
    [type |-> "project", title |-> "Start Your First Repository",
     description |-> <<"Create your first GitHub repository with a simple project in your preferred programming language">>,
     difficulty |-> "beginner", time_estimate |-> "2-3 hours",
     resources |-> <<"https://github.com", "https://docs.github.com/en/get-started">>]

BasicAlgorithmsRec ==
    [type |-> "problem", title |-> "Solve Basic Algorithms Problems",
     description |-> <<"Practice fundamental algorithms and data structures on Codeforces">>,
     difficulty |-> "beginner", time_estimate |-> "1 hour daily",
     resources |-> <<"https://codeforces.com/problemset">>]

\* the description is f"Create a complete web application to enhance your {domain} skills"
FullStackRec(domain) ==
    [type |-> "project", title |-> "Build a Full-Stack Web Application",
     description |-> <<"Create a complete web application to enhance your ">> \o domain \o <<" skills">>,
     difficulty |-> "intermediate", time_estimate |-> "2-4 weeks",
     resources |-> <<"https://developer.mozilla.org", "https://reactjs.org">>]

GenericRecs ==
    <<[type |-> "learning", title |-> "Master Data Structures and Algorithms",
       description |-> <<"Build a strong foundation in computer science fundamentals">>,
       difficulty |-> "intermediate", time_estimate |-> "3-6 months",
       resources |-> <<"https://leetcode.com", "https://codeforces.com">>],
      [type |-> "project", title |-> "Build a Portfolio Project",
       description |-> <<"Create a project that showcases your skills in your domain of interest">>,
       difficulty |-> "intermediate", time_estimate |-> "2-4 weeks",
       resources |-> <<"https://github.com">>]>>

\* data = activity_data.get(platform, {}); data and data.get('activity')
HasActivity(activity, platform) ==
    /\ platform \in DOMAIN activity
    /\ "activity" \in DOMAIN activity[platform]

\* lines 332-343
GithubRule(activity) ==
    IF /\ HasActivity(activity, "github")
       /\ Get(activity["github"].activity, "top_languages", <<>>) = <<>>
    THEN <<FirstRepositoryRec>> ELSE <<>>

CodeforcesRatingThreshold == 1200

\* lines 346-357
CodeforcesRule(activity) ==
    IF /\ HasActivity(activity, "codeforces")
       /\ Get(activity["codeforces"].activity, "current_rating", 0) < CodeforcesRatingThreshold
    THEN <<BasicAlgorithmsRec>> ELSE <<>>

\* a mutant of DomainRule: the test is case-sensitive
DomainRuleCaseSensitive(domain) ==
    IF Contains(domain, <<"w", "e", "b">>) THEN <<FullStackRec(domain)>> ELSE <<>>

\* lines 360-368, for a domain that is a str
DomainRule(domain) ==
    IF Contains(LowerChars(domain), <<"w", "e", "b">>) THEN <<FullStackRec(domain)>> ELSE <<>>

\* _create_fallback_recommendations: domain.lower() raises AttributeError
\* when the request carried "domain": null
_create_fallback_recommendations(activity, goal, domain) ==
    IF domain = NoneChars
    THEN Raise(Exception("'NoneType' object has no attribute 'lower'"))
    ELSE LET recs ==
                 GithubRule(activity) \o CodeforcesRule(activity) \o DomainRule(domain)
         IN  Return(IF recs = <<>> THEN GenericRecs ELSE recs)

\* what json.loads makes of the token "o"
ModelObject ==
    [type |-> "skill", title |-> "Model recommendation",
     description |-> <<"A recommendation written by the model">>,
     difficulty |-> "advanced", time_estimate |-> "1 week",
     resources |-> <<"https://example.com">>]
JsonNumber == [json_number |-> 1]
JsonArray(items) == [json_array |-> items]

ParseFail == [ok |-> FALSE]
Parsed(v, n) == [ok |-> TRUE, value |-> v, next |-> n]

\* a JSON value starting at token i: an object, a number or an array
RECURSIVE ParseValue(_, _)
RECURSIVE ParseElements(_, _, _)
ParseValue(toks, i) ==
    IF i > Len(toks) THEN ParseFail
    ELSE IF toks[i] = "o" THEN Parsed(ModelObject, i + 1)
    ELSE IF toks[i] = "1" THEN Parsed(JsonNumber, i + 1)
    ELSE IF toks[i] = "["
    THEN IF i + 1 <= Len(toks) /\ toks[i + 1] = "]"
         THEN Parsed(JsonArray(<<>>), i + 2)
         ELSE ParseElements(toks, i + 1, <<>>)
    ELSE ParseFail

\* the elements of an array from token i on, up to its closing bracket
ParseElements(toks, i, acc) ==
    LET v == ParseValue(toks, i)
    IN  IF ~v.ok \/ v.next > Len(toks) THEN ParseFail
        ELSE IF toks[v.next] = "," THEN ParseElements(toks, v.next + 1, Append(acc, v.value))
        ELSE IF toks[v.next] = "]" THEN Parsed(JsonArray(Append(acc, v.value)), v.next + 1)
        ELSE ParseFail

\* json.loads(json_str): the whole string is one JSON value, or JSONDecodeError
json_loads(toks) ==
    LET v == ParseValue(toks, 1)
    IN  IF v.ok /\ v.next = Len(toks) + 1
        THEN Return(v.value)
        ELSE Raise(Exception("JSONDecodeError"))

\* response_text.find('['), 0-based; -1: not found
Find(text, tok) ==
    IF \E i \in DOMAIN text : text[i] = tok
    THEN (CHOOSE i \in DOMAIN text : text[i] = tok /\ \A j \in 1..(i - 1) : text[j] # tok) - 1
    ELSE -1

\* response_text.rfind(']'), 0-based; -1: not found
RFind(text, tok) ==
    IF \E i \in DOMAIN text : text[i] = tok
    THEN (CHOOSE i \in DOMAIN text : text[i] = tok /\ \A j \in (i + 1)..Len(text) : text[j] # tok) - 1
    ELSE -1

\* response_text[start_idx:end_idx] for 0 <= start_idx, end_idx <= len
Slice(text, start_idx, end_idx) == SubSeq(text, start_idx + 1, end_idx)

NoSpan == [found |-> FALSE]

\* a mutant of ExtractSpan: the span ends at the first ']'
ExtractSpanFirstClose(response_text) ==
    LET start_idx == Find(response_text, "[")
        end_idx   == Find(response_text, "]") + 1
    IN  IF start_idx # -1 /\ end_idx # 0
        THEN [found |-> TRUE, json_str |-> Slice(response_text, start_idx, end_idx)]
        ELSE NoSpan

\* lines 305-311: the span the engine parses; NoSpan when a marker is missing
ExtractSpan(response_text) ==
    LET start_idx == Find(response_text, "[")
        end_idx   == RFind(response_text, "]") + 1
    IN  IF start_idx # -1 /\ end_idx # 0
        THEN [found |-> TRUE, json_str |-> Slice(response_text, start_idx, end_idx)]
        ELSE NoSpan

\* whether generate_recommendations returns the model's parsed array
UsesModelOutput(outcome) ==
    /\ outcome.kind = "text"
    /\ ExtractSpan(outcome.text).found
    /\ ~json_loads(ExtractSpan(outcome.text).json_str).raised

\* generate_recommendations.  outcome is what the model call does: "raise"
\* (generate_content raises), "notext" (response.text raises) or "text".
\* Either failure and JSONDecodeError end in the fallback; an exception of
\* the fallback itself leaves generate_recommendations.
generate_recommendations(activity, goal, domain, outcome) ==
    IF UsesModelOutput(outcome)
    THEN Return(json_loads(ExtractSpan(outcome.text).json_str).value.json_array)
    ELSE _create_fallback_recommendations(activity, goal, domain)

(***************************************************************************)
(* analyze_user_profile and get_user_analysis                              *)
(***************************************************************************)
MaxRequests == 2

Reqs == 1..MaxRequests

\* AnalyzeProfileRequest defaults (lines 64-65)
DefaultGoal == "Improve programming skills"
DefaultDomain ==
    <<"G", "e", "n", "e", "r", "a", "l", " ", "S", "o", "f", "t", "w", "a", "r", "e", " ",
      "D", "e", "v", "e", "l", "o", "p", "m", "e", "n", "t">>
WebDomain == <<"W", "e", "b", " ", "D", "e", "v", "e", "l", "o", "p", "m", "e", "n", "t">>

Platforms == {"github", "leetcode", "codeforces"}
UsernameField(platform) ==
    CASE platform = "github" -> "github_username"
      [] platform = "leetcode" -> "leetcode_username"
      [] platform = "codeforces" -> "codeforces_username"

\* the platforms analyze_user_profile fetches: `if request.<platform>_username:`
Requested(req, platform) == Truthy(req[UsernameField(platform)])

\* the order of the three `if` blocks, lines 401, 408 and 415
FetchOrder == <<"github", "leetcode", "codeforces">>

\* the next suspension point after the i-th `if` block: the adapter call of
\* the next requested platform, or the engine call of line 423
RECURSIVE NextStage(_, _)
NextStage(req, i) ==
    IF i >= Len(FetchOrder) THEN "recommend"
    ELSE IF Requested(req, FetchOrder[i + 1]) THEN FetchOrder[i + 1]
    ELSE NextStage(req, i + 1)

StageIndex(platform) == CHOOSE i \in DOMAIN FetchOrder : FetchOrder[i] = platform

Adapter(platform, username, net) ==
    CASE platform = "github" -> fetch_github_stats(username, net)
      [] platform = "leetcode" -> fetch_leetcode_stats(username, net)
      [] platform = "codeforces" -> fetch_codeforces_stats(username, net)

\* a mutant of OnFetched: the except branch records nothing
OnFetchedErrorDropped(activity, platform, result) ==
    IF result.raised THEN activity ELSE activity @@ (platform :> result.value)

\* a mutant of OnFetched: the except branch rebinds the dict to the error alone
OnFetchedErrorReplaces(activity, platform, result) ==
    IF result.raised
    THEN platform :> [error |-> ExcStr(result.exc)]
    ELSE activity @@ (platform :> result.value)

\* lines 402-406, 409-413, 416-420: the try/except around one adapter call
OnFetched(activity, platform, result) ==
    IF result.raised
    THEN activity @@ (platform :> [error |-> ExcStr(result.exc)])
    ELSE activity @@ (platform :> result.value)

\* lines 460-462
ServerError(e) ==
    [status |-> 500, detail |-> "Error analyzing profile: " \o ExcStr(e)]

\* .isoformat(): the string order of the stored timestamps is their time order
IsoFormat(t) == [iso |-> t]

\* a mutant of UserProfileDict: the identifier is derived from the usernames,
\* so a repeated request reuses it
UserProfileDictKeyedByUsername(id, req, t) ==
    [id |-> IF req.github_username = "u" THEN 1 ELSE id,
     github_username |-> req.github_username,
     leetcode_username |-> req.leetcode_username,
     codeforces_username |-> req.codeforces_username,
     created_at |-> IsoFormat(t + 1),
     last_analyzed |-> IsoFormat(t)]

\* lines 428-438: UserProfile(...) and its dict, timestamps as ISO strings;
\* last_analyzed is read at t, created_at right after it
UserProfileDict(id, req, t) ==
    [id |-> id,
     github_username |-> req.github_username,
     leetcode_username |-> req.leetcode_username,
     codeforces_username |-> req.codeforces_username,
     created_at |-> IsoFormat(t + 1),
     last_analyzed |-> IsoFormat(t)]

\* List[Dict[str, Any]]: pydantic accepts the list when every item is a dict
IsDict(v) == "json_number" \notin DOMAIN v /\ "json_array" \notin DOMAIN v
ValidRecommendations(recs) == \A i \in DOMAIN recs : IsDict(recs[i])

\* a mutant of AIRecommendationDict: user_id takes the record's own id
AIRecommendationDictOwnId(id, user_id, recs, t) ==
    [id |-> id, user_id |-> id, recommendations |-> recs, generated_at |-> IsoFormat(t)]

\* a mutant of AIRecommendationDict: user_id is read from a module-level
\* "current profile", the profile built last by any request
AIRecommendationDictCurrentProfile(id, user_id, recs, t) ==
    LET built == {user_profile[q].id : q \in {p \in DOMAIN user_profile : user_profile[p] # NotRun}}
    IN  [id |-> id, user_id |-> CHOOSE m \in built : \A n \in built : n <= m,
         recommendations |-> recs, generated_at |-> IsoFormat(t)]

\* lines 443-449: AIRecommendation(...) and its dict
AIRecommendationDict(id, user_id, recs, t) ==
    [id |-> id, user_id |-> user_id, recommendations |-> recs, generated_at |-> IsoFormat(t)]

DbFault == Exception("ServerSelectionTimeoutError")

Finish(r, resp) ==
    /\ response' = [response EXCEPT ![r] = resp]
    /\ pc' = [pc EXCEPT ![r] = "done"]

\* the request arrives and runs to its first await.  With sequential set,
\* a request arrives only when the ones before it have ended.
StartRequest(r, requests, sequential) ==
    /\ pc[r] = "idle"
    /\ \A q \in 1..(r - 1) :
          IF sequential THEN pc[q] \in {"done", "stopped"} ELSE pc[q] # "idle"
    /\ \E req \in requests :
          /\ request' = [request EXCEPT ![r] = req]
          /\ pc' = [pc EXCEPT ![r] = NextStage(req, 0)]
    /\ UNCHANGED <<activity_data, recommendations, user_profile, ai_recommendation,
                   response, history, storeVars, lookup, adapterVars>>

\* one of lines 402-406, 409-413, 416-420: the adapter call returns or raises
Fetch(r, platform, nets) ==
    /\ pc[r] = platform
    /\ \E net \in nets :
          /\ activity_data' = [activity_data EXCEPT ![r] =
                  OnFetched(@, platform,
                            Adapter(platform, request[r][UsernameField(platform)], net))]
          /\ history' = [history EXCEPT ![r].nets = @ @@ (platform :> net)]
    /\ pc' = [pc EXCEPT ![r] = NextStage(request[r], StageIndex(platform))]
    /\ UNCHANGED <<request, recommendations, user_profile, ai_recommendation,
                   response, storeVars, lookup, adapterVars>>

\* lines 423-438: the engine call, then the UserProfile is built
Recommend(r, outcomes) ==
    /\ pc[r] = "recommend"
    /\ \E outcome \in outcomes :
          LET res == generate_recommendations(activity_data[r], request[r].goal,
                                              request[r].domain, outcome)
          IN  /\ history' = [history EXCEPT ![r].model = outcome]
              /\ IF res.raised
                 THEN /\ Finish(r, ServerError(res.exc))
                      /\ UNCHANGED <<recommendations, user_profile, uuids>>
                 ELSE /\ recommendations' = [recommendations EXCEPT ![r] = res.value]
                      /\ user_profile' = [user_profile EXCEPT ![r] =
                              UserProfileDict(uuids + 1, request[r], now)]
                      /\ uuids' = uuids + 1
                      /\ pc' = [pc EXCEPT ![r] = "insert_profile"]
                      /\ UNCHANGED response
              /\ now' = IF res.raised THEN now ELSE now + 2
    /\ UNCHANGED <<request, activity_data, ai_recommendation, user_profiles,
                   ai_recommendations, lookup, adapterVars>>

\* lines 440-449: the profile insert, then the AIRecommendation is built
InsertProfile(r) ==
    /\ pc[r] = "insert_profile"
    /\ \/ /\ history' = [history EXCEPT ![r].db_fault = TRUE]
          /\ Finish(r, ServerError(DbFault))
          /\ UNCHANGED <<user_profiles, ai_recommendation, uuids, now>>
       \/ /\ user_profiles' = Append(user_profiles, user_profile[r])
          /\ IF ValidRecommendations(recommendations[r])
             THEN /\ ai_recommendation' = [ai_recommendation EXCEPT ![r] =
                          AIRecommendationDict(uuids + 1, user_profile[r].id,
                                               recommendations[r], now)]
                  /\ uuids' = uuids + 1
                  /\ now' = now + 1
                  /\ pc' = [pc EXCEPT ![r] = "insert_recommendation"]
                  /\ UNCHANGED <<response, history>>
             ELSE /\ Finish(r, ServerError(Exception("ValidationError")))
                  /\ UNCHANGED <<ai_recommendation, uuids, history, now>>
    /\ UNCHANGED <<request, activity_data, recommendations, user_profile,
                   ai_recommendations, lookup, adapterVars>>

\* lines 451-458: the recommendation insert, then the response
InsertRecommendation(r) ==
    /\ pc[r] = "insert_recommendation"
    /\ \/ /\ history' = [history EXCEPT ![r].db_fault = TRUE]
          /\ Finish(r, ServerError(DbFault))
          /\ UNCHANGED <<ai_recommendations, now>>
       \/ /\ ai_recommendations' = Append(ai_recommendations, ai_recommendation[r])
          /\ Finish(r, [status |-> 200,
                        user_id |-> user_profile[r].id,
                        activity_data |-> activity_data[r],
                        recommendations |-> recommendations[r],
                        analysis_timestamp |-> IsoFormat(now)])
          /\ now' = now + 1
          /\ UNCHANGED history
    /\ UNCHANGED <<request, activity_data, recommendations, user_profile,
                   ai_recommendation, user_profiles, uuids, lookup, adapterVars>>

\* the request stops at a suspension point (the task is cancelled, the process dies)
Stop(r) ==
    /\ pc[r] \in {"github", "leetcode", "codeforces", "recommend",
                  "insert_profile", "insert_recommendation"}
    /\ pc' = [pc EXCEPT ![r] = "stopped"]
    /\ UNCHANGED <<request, activity_data, recommendations, user_profile,
                   ai_recommendation, response, history, storeVars, lookup, adapterVars>>

\* the identifiers a caller looks up: generated ones and ones never generated
LookupIds == 1..(MaxRequests + 1)

NotFound == [found |-> FALSE]

\* a mutant of FindProfile: a profile is found only with a recommendation
\* record stored for it
FindProfileWithRecommendations(profiles, user_id) ==
    IF /\ \E i \in DOMAIN profiles : profiles[i].id = user_id
       /\ \E j \in DOMAIN ai_recommendations : ai_recommendations[j].user_id = user_id
    THEN [found |-> TRUE,
          doc |-> profiles[CHOOSE i \in DOMAIN profiles :
                      /\ profiles[i].id = user_id
                      /\ \A j \in 1..(i - 1) : profiles[j].id # user_id]]
    ELSE NotFound

\* db.user_profiles.find_one({'id': user_id}): the first match, or NotFound
FindProfile(profiles, user_id) ==
    IF \E i \in DOMAIN profiles : profiles[i].id = user_id
    THEN [found |-> TRUE,
          doc |-> profiles[CHOOSE i \in DOMAIN profiles :
                      /\ profiles[i].id = user_id
                      /\ \A j \in 1..(i - 1) : profiles[j].id # user_id]]
    ELSE NotFound

\* a mutant of LatestRecommendations: the filter on user_id is lost
LatestRecommendationsAnyUser(recs, user_id) ==
    {i \in DOMAIN recs :
        \A j \in DOMAIN recs : recs[j].generated_at.iso <= recs[i].generated_at.iso}

\* db.ai_recommendations.find_one({'user_id': user_id}, sort=[('generated_at', -1)]):
\* the indexes of the matches with the greatest generated_at (any of them is returned)
LatestRecommendations(recs, user_id) ==
    {i \in DOMAIN recs :
        /\ recs[i].user_id = user_id
        /\ \A j \in DOMAIN recs :
              recs[j].user_id = user_id => recs[j].generated_at.iso <= recs[i].generated_at.iso}

\* a mutant of LookupFailure: the `except HTTPException: raise` clause is missing
LookupFailureNoReraise(e) ==
    [status |-> 500, detail |-> "Error retrieving user data: " \o ExcStr(e)]

\* lines 484-488: an HTTPException passes, anything else becomes a 500
LookupFailure(e) ==
    IF "status_code" \in DOMAIN e
    THEN [status |-> e.status_code, detail |-> e.detail]
    ELSE [status |-> 500, detail |-> "Error retrieving user data: " \o ExcStr(e)]

\* lines 469-471
LookupProfile ==
    /\ lookup.pc \in {"idle", "done"}
    /\ \E user_id \in LookupIds :
          \/ lookup' = [pc |-> "done", user_id |-> user_id, db_fault |-> TRUE,
                        result |-> LookupFailure(DbFault)]
          \/ LET profile == FindProfile(user_profiles, user_id)
             IN  lookup' =
                    IF profile.found
                    THEN [pc |-> "find_recommendations", user_id |-> user_id,
                          db_fault |-> FALSE, profile |-> profile.doc]
                    ELSE [pc |-> "done", user_id |-> user_id, db_fault |-> FALSE,
                          result |-> LookupFailure(HTTPException(404, "User not found"))]
    /\ UNCHANGED <<requestVars, storeVars, adapterVars>>

\* lines 474-482
LookupRecommendations ==
    /\ lookup.pc = "find_recommendations"
    /\ \/ lookup' = [pc |-> "done", user_id |-> lookup.user_id, db_fault |-> TRUE,
                      result |-> LookupFailure(DbFault)]
       \/ LET latest == LatestRecommendations(ai_recommendations, lookup.user_id)
          IN  \/ /\ latest = {}
                 /\ lookup' = [pc |-> "done", user_id |-> lookup.user_id, db_fault |-> FALSE,
                               result |-> [status |-> 200, profile |-> lookup.profile,
                                           recommendations |-> <<>>],
                               read_at |-> Len(ai_recommendations)]
              \/ \E i \in latest :
                    lookup' = [pc |-> "done", user_id |-> lookup.user_id, db_fault |-> FALSE,
                               result |-> [status |-> 200, profile |-> lookup.profile,
                                           recommendations |-> ai_recommendations[i].recommendations],
                               read_at |-> Len(ai_recommendations)]
    /\ UNCHANGED <<requestVars, storeVars, adapterVars>>

(***************************************************************************)
(* Specifications of the request lifecycle                                 *)
(***************************************************************************)
InitLifecycle ==
    /\ pc = [r \in Reqs |-> "idle"]
    /\ request = [r \in Reqs |-> NotRun]
    /\ activity_data = [r \in Reqs |-> <<>>]
    /\ recommendations = [r \in Reqs |-> <<>>]
    /\ user_profile = [r \in Reqs |-> NotRun]
    /\ ai_recommendation = [r \in Reqs |-> NotRun]
    /\ response = [r \in Reqs |-> NotRun]
    /\ history = [r \in Reqs |->
                    [nets |-> <<>>, model |-> NotRun, db_fault |-> FALSE]]
    /\ user_profiles = <<>>
    /\ ai_recommendations = <<>>
    /\ uuids = 0
    /\ now = 0
    /\ lookup = [pc |-> "idle"]

Init ==
    /\ InitLifecycle
    /\ adCall = NotRun
    /\ adResult = NotRun

\* the requests a caller can send: each username absent, empty or given; the
\* goal and the domain absent (null), defaulted or given
Usernames == {None, "", "u"}
AllRequests ==
    [github_username : Usernames, leetcode_username : Usernames,
     codeforces_username : Usernames, goal : {None, DefaultGoal},
     domain : {NoneChars, DefaultDomain, WebDomain}]

\* what the platforms may answer: not found, found with little, found with more
AnalyzeGithubNets ==
    {[user |-> Resp(404), repos |-> Resp(404), events |-> Resp(404)],
     [user |-> Ok([login |-> "u"]), repos |-> Ok(<<>>), events |-> Ok(<<>>)],
     [user |-> Ok([login |-> "u"]),
      repos |-> Ok(<<[name |-> "r", language |-> "Go", stargazers_count |-> 2]>>),
      events |-> Resp(403)]}
AnalyzeLeetcodeNets ==
    {[user |-> Resp(404)],
     [user |-> Ok([submitStats |->
          [acSubmissionNum |-> <<[difficulty |-> "All", count |-> 3]>>,
           totalSubmissionNum |-> <<[difficulty |-> "All", count |-> 1, submissions |-> 3]>>]])]}
AnalyzeCodeforcesNets ==
    {[user |-> Ok([status |-> "FAILED"]), rating |-> Resp(400), status |-> Resp(400)],
     [user |-> Ok([status |-> "OK", result |-> <<[handle |-> "u", rating |-> 900]>>]),
      rating |-> Ok([status |-> "OK", result |-> <<>>]),
      status |-> Ok([status |-> "OK", result |-> <<>>])],
     [user |-> Ok([status |-> "OK", result |-> <<[handle |-> "u", rating |-> 1500]>>]),
      rating |-> Resp(503),
      status |-> Ok([status |-> "OK", result |->
          <<[verdict |-> "OK", problem |-> [contestId |-> 100, index |-> "A"]]>>])]}
NetsOf(platform) ==
    CASE platform = "github" -> AnalyzeGithubNets
      [] platform = "leetcode" -> AnalyzeLeetcodeNets
      [] platform = "codeforces" -> AnalyzeCodeforcesNets

\* what the model may do: raise, answer without text, or answer with a text
ModelTexts ==
    {<<"p">>, <<"p", "[", "o", ",", "o", "]", "p">>, <<"[", "]">>, <<"[", "1", "]">>,
     <<"[", "o">>, <<"]", "p", "[">>, <<"[", "p", "]">>,
     <<"[", "o", "]", "p", "[", "o", "]">>}
ModelOutcomes ==
    {[kind |-> "raise"], [kind |-> "notext"]} \cup {[kind |-> "text", text |-> t] : t \in ModelTexts}

\* one request, every input
NextAnalyze ==
    \/ StartRequest(1, AllRequests, TRUE)
    \/ \E platform \in Platforms : Fetch(1, platform, NetsOf(platform))
    \/ Recommend(1, ModelOutcomes)
    \/ InsertProfile(1)
    \/ InsertRecommendation(1)

SpecAnalyze == Init /\ [][NextAnalyze]_vars

\* requests one after another and lookups at any time, against the shared
\* store; fewer inputs
StoreRequests ==
    {[github_username |-> "u", leetcode_username |-> None, codeforces_username |-> "u",
      goal |-> DefaultGoal, domain |-> DefaultDomain]}
StoreNetsOf(platform) ==
    CASE platform = "github" ->
            {[user |-> Resp(404), repos |-> Resp(404), events |-> Resp(404)]}
      [] platform = "leetcode" -> {[user |-> Resp(404)]}
      [] platform = "codeforces" ->
            {[user |-> Ok([status |-> "OK", result |-> <<[handle |-> "u", rating |-> 900]>>]),
              rating |-> Ok([status |-> "OK", result |-> <<>>]),
              status |-> Ok([status |-> "OK", result |-> <<>>])]}
StoreModelOutcomes ==
    {[kind |-> "raise"], [kind |-> "text", text |-> <<"[", "o", "]">>],
     [kind |-> "text", text |-> <<"[", "1", "]">>]}

Next ==
    \/ \E r \in Reqs :
          \/ StartRequest(r, StoreRequests, TRUE)
          \/ \E platform \in Platforms : Fetch(r, platform, StoreNetsOf(platform))
          \/ Recommend(r, StoreModelOutcomes)
          \/ InsertProfile(r)
          \/ InsertRecommendation(r)
          \/ Stop(r)
    \/ LookupProfile
    \/ LookupRecommendations

Spec == Init /\ [][Next]_vars

\* two requests in flight at once: each step is one request running from
\* one await to the next, in any interleaving
ConcurrentPair == {1, 2}
ConcurrentRequests ==
    {[github_username |-> "u", leetcode_username |-> "u", codeforces_username |-> None,
      goal |-> DefaultGoal, domain |-> WebDomain],
     [github_username |-> None, leetcode_username |-> "", codeforces_username |-> "u",
      goal |-> None, domain |-> DefaultDomain]}
ConcurrentNetsOf(platform) ==
    CASE platform = "github" ->
            {[user |-> Resp(404), repos |-> Resp(404), events |-> Resp(404)],
             [user |-> Ok([login |-> "u"]), repos |-> Ok(<<>>), events |-> Ok(<<>>)]}
      [] platform = "leetcode" -> {[user |-> Resp(404)]}
      [] platform = "codeforces" ->
            {[user |-> Ok([status |-> "OK", result |-> <<[handle |-> "u", rating |-> 900]>>]),
              rating |-> Ok([status |-> "OK", result |-> <<>>]),
              status |-> Ok([status |-> "OK", result |-> <<>>])]}

NextConcurrent ==
    \E r \in ConcurrentPair :
        \/ StartRequest(r, ConcurrentRequests, FALSE)
        \/ \E platform \in Platforms : Fetch(r, platform, ConcurrentNetsOf(platform))
        \/ Recommend(r, StoreModelOutcomes)
        \/ InsertProfile(r)
        \/ InsertRecommendation(r)

SpecConcurrent == Init /\ [][NextConcurrent]_vars

(***************************************************************************)
(* Properties of analyze_user_profile                                      *)
(***************************************************************************)
StageRank(stage) ==
    CASE stage = "github" -> 1 [] stage = "leetcode" -> 2 [] stage = "codeforces" -> 3
      [] stage = "recommend" -> 4 [] stage = "insert_profile" -> 5
      [] stage = "insert_recommendation" -> 6 [] stage = "done" -> 7

\* request r is past the `if` block of the platform
BlockPassed(r, platform) ==
    pc[r] \notin {"idle", "stopped"} /\ StageRank(pc[r]) > StageIndex(platform)

Succeeded(r) == pc[r] = "done" /\ response[r].status = 200
Failed(r) == pc[r] = "done" /\ response[r].status = 500

\* the platforms whose username the request carries at all / carries non-empty
Supplied(r) == {p \in Platforms : request[r][UsernameField(p)] # None}
SuppliedNonEmpty(r) == {p \in Platforms : request[r][UsernameField(p)] \notin {None, ""}}

HasError(summary) == "error" \in DOMAIN summary

\* C1 as stated: the returned activity_data has exactly one entry for each
\* platform whose username was supplied in the request.
C1_Original ==
    \A r \in Reqs : Succeeded(r) => DOMAIN response[r].activity_data = Supplied(r)

\* C1 amended: the returned activity_data (and the map the engine is given)
\* has exactly one entry for each platform whose username was supplied and is
\* not the empty string, whatever the adapters did.
C1_KeysAreNonEmptyUsernames ==
    \A r \in Reqs :
        /\ BlockPassed(r, "codeforces") => DOMAIN activity_data[r] = SuppliedNonEmpty(r)
        /\ Succeeded(r) => DOMAIN response[r].activity_data = SuppliedNonEmpty(r)

C1_Witness ==
    \E r \in Reqs :
        /\ Succeeded(r)
        /\ Supplied(r) = Platforms /\ SuppliedNonEmpty(r) = Platforms
        /\ \A p \in Platforms : HasError(response[r].activity_data[p])

\* the summary the platform's own adapter call yields, as the orchestrator keeps it
OwnSummary(r, platform) ==
    LET res == Adapter(platform, request[r][UsernameField(platform)], history[r].nets[platform])
    IN  IF res.raised THEN [error |-> ExcStr(res.exc)] ELSE res.value

\* C2: once the `if` block of a requested platform is passed, its adapter was
\* invoked and its key holds the summary or the error of its own call alone,
\* whatever the other adapters did; and no request fails before the engine
\* is called, so an adapter failure aborts nothing.
C2_FaultIsolation ==
    \A r \in Reqs :
        /\ \A p \in Platforms :
              (BlockPassed(r, p) /\ p \in SuppliedNonEmpty(r)) =>
                  /\ p \in DOMAIN history[r].nets
                  /\ p \in DOMAIN activity_data[r]
                  /\ activity_data[r][p] = OwnSummary(r, p)
        /\ Failed(r) => history[r].model # NotRun

C2_Witness ==
    \E r \in Reqs :
        /\ Succeeded(r)
        /\ SuppliedNonEmpty(r) = Platforms
        /\ HasError(response[r].activity_data["github"])
        /\ ~HasError(response[r].activity_data["leetcode"])
        /\ HasError(response[r].activity_data["codeforces"])

\* every requested adapter of r failed, and at least one was requested
AllInvalid(r) ==
    /\ SuppliedNonEmpty(r) # {}
    /\ \A p \in SuppliedNonEmpty(r) : HasError(activity_data[r][p])

\* C3: a request whose every supplied username is invalid still returns 200,
\* with an error under each requested key and a non-empty recommendation
\* list (persistence being available).
C3_AllInvalidSucceeds ==
    \A r \in Reqs :
        (pc[r] = "done" /\ AllInvalid(r) /\ ~history[r].db_fault) =>
            /\ response[r].status = 200
            /\ \A p \in SuppliedNonEmpty(r) : HasError(response[r].activity_data[p])
            /\ response[r].recommendations # <<>>

\* C4: whatever the model does, with persistence available the request
\* completes successfully.
C4_ModelFailureContained ==
    \A r \in Reqs : (pc[r] = "done" /\ ~history[r].db_fault) => response[r].status = 200

\* the engine of request r took the fallback path
FallbackRan(r) == history[r].model # NotRun /\ ~UsesModelOutput(history[r].model)

\* C5: the fallback never fails and returns at least one recommendation,
\* for every activity map, goal and domain a request can carry.
C5_FallbackNeverFails ==
    \A r \in Reqs :
        FallbackRan(r) =>
            LET fb == _create_fallback_recommendations(activity_data[r], request[r].goal,
                                                       request[r].domain)
            IN  ~fb.raised /\ Len(fb.value) >= 1

\* the positions of the array markers in a text, and the span from the first
\* '[' to the last ']' (empty when the last ']' comes first)
Opens(text) == {i \in DOMAIN text : text[i] = "["}
Closes(text) == {i \in DOMAIN text : text[i] = "]"}
SpanOf(text) ==
    SubSeq(text, CHOOSE i \in Opens(text) : \A j \in Opens(text) : i <= j,
                 CHOOSE i \in Closes(text) : \A j \in Closes(text) : j <= i)

\* the model of request r answered a text with both markers
Marked(r) ==
    IF history[r].model.kind = "text"
    THEN Opens(history[r].model.text) # {} /\ Closes(history[r].model.text) # {}
    ELSE FALSE

\* C12: once the engine call of a request is over, what it returned is the
\* array parsed from the span between the first '[' and the last ']' when
\* both markers exist and the span parses, and otherwise exactly what the
\* fallback yields for the request's activity, goal and domain (its list,
\* or its exception, which ends the request); never a mix of the two.
C12_ExactlyOnePath ==
    \A r \in Reqs :
        history[r].model # NotRun =>
            LET parsed == json_loads(SpanOf(history[r].model.text))
                fb == _create_fallback_recommendations(activity_data[r], request[r].goal,
                                                       request[r].domain)
            IN  IF Marked(r) /\ ~parsed.raised
                THEN /\ user_profile[r] # NotRun
                     /\ recommendations[r] = parsed.value.json_array
                ELSE IF fb.raised
                THEN /\ user_profile[r] = NotRun
                     /\ response[r] = ServerError(fb.exc)
                ELSE /\ user_profile[r] # NotRun
                     /\ recommendations[r] = fb.value

\* the array was wrapped in prose and differs from what the fallback yields
C12_Witness ==
    \E r \in Reqs :
        /\ Succeeded(r)
        /\ history[r].model = [kind |-> "text", text |-> <<"p", "[", "o", ",", "o", "]", "p">>]
        /\ response[r].recommendations = <<ModelObject, ModelObject>>
        /\ "github" \in DOMAIN activity_data[r]

\* what identifies a recommendation: its type, difficulty and title
Kind(rec) == <<rec.type, rec.difficulty, rec.title>>
Kinds(recs) == [i \in DOMAIN recs |-> Kind(recs[i])]

\* the summary of a platform exists in the activity of request r: the
\* platform was fetched and its adapter did not fail
SummaryExists(r, platform) ==
    IF platform \in DOMAIN activity_data[r]
    THEN ~HasError(activity_data[r][platform])
    ELSE FALSE

NoLanguages(r) ==
    SummaryExists(r, "github") /\ activity_data[r]["github"].activity.top_languages = <<>>
LowRating(r) ==
    SummaryExists(r, "codeforces")
        /\ activity_data[r]["codeforces"].activity.current_rating < 1200
WebDomainAsked(r) ==
    \E i \in 1..(Len(request[r].domain) - 2) :
        /\ request[r].domain[i] \in {"w", "W"}
        /\ request[r].domain[i + 1] \in {"e", "E"}
        /\ request[r].domain[i + 2] \in {"b", "B"}

\* the fallback output the three rules and the generic rule prescribe
ExpectedKinds(r) ==
    LET ruled ==
            (IF NoLanguages(r)
             THEN <<<<"project", "beginner", "Start Your First Repository">>>> ELSE <<>>)
            \o (IF LowRating(r)
                THEN <<<<"problem", "beginner", "Solve Basic Algorithms Problems">>>> ELSE <<>>)
            \o (IF WebDomainAsked(r)
                THEN <<<<"project", "intermediate", "Build a Full-Stack Web Application">>>>
                ELSE <<>>)
    IN  IF ruled # <<>> THEN ruled
        ELSE <<<<"learning", "intermediate", "Master Data Structures and Algorithms">>,
               <<"project", "intermediate", "Build a Portfolio Project">>>>

\* C17: when the engine takes the fallback path for a request whose domain
\* is a string, it returns, in this order, the first-repository project iff
\* the code-host summary exists without languages, the basic-algorithms
\* problem iff the competitive-judge summary exists with a rating below
\* 1200, the full-stack project iff the domain contains "web" in any case,
\* and the two generic recommendations iff none of the three applies.
C17_FallbackRules ==
    \A r \in Reqs :
        (FallbackRan(r) /\ request[r].domain # NoneChars) =>
            /\ user_profile[r] # NotRun
            /\ Kinds(recommendations[r]) = ExpectedKinds(r)

C17_Witness ==
    \E r \in Reqs :
        /\ FallbackRan(r) /\ Succeeded(r)
        /\ NoLanguages(r) /\ LowRating(r) /\ WebDomainAsked(r)
        /\ request[r].domain = WebDomain
        /\ Len(response[r].recommendations) = 3
        /\ "leetcode" \in DOMAIN activity_data[r]
        /\ HasError(activity_data[r]["leetcode"])

(***************************************************************************)
(* Properties of the store and of get_user_analysis                        *)
(***************************************************************************)
\* the position of a document in a collection; 0 when it is not stored
IndexOf(coll, doc) ==
    IF \E i \in DOMAIN coll : coll[i] = doc
    THEN CHOOSE i \in DOMAIN coll : coll[i] = doc
    ELSE 0

\* C6: every stored recommendation record is the one some request built,
\* its user_id is the id of that request's profile, and that profile is stored.
C6_RecommendationReferencesProfile ==
    \A i \in DOMAIN ai_recommendations :
        \E r \in Reqs :
            /\ ai_recommendation[r] = ai_recommendations[i]
            /\ ai_recommendations[i].user_id = user_profile[r].id
            /\ IndexOf(user_profiles, user_profile[r]) # 0

C6_Witness ==
    /\ Len(ai_recommendations) = 1
    /\ Len(user_profiles) = 2
    /\ \E r \in Reqs : pc[r] \in {"stopped", "done"} /\ user_profile[r] = user_profiles[1]
                         /\ IndexOf(ai_recommendations, ai_recommendation[r]) = 0
    /\ ai_recommendations[1].user_id = user_profiles[2].id

SameUsernames(q, r) ==
    \A p \in Platforms : request[q][UsernameField(p)] = request[r][UsernameField(p)]

\* the lookup returned a result, having read the recommendation record of r
LookupSaw(r) ==
    /\ lookup.pc = "done" /\ ~lookup.db_fault /\ lookup.result.status = 200
    /\ IndexOf(ai_recommendations, ai_recommendation[r]) \in 1..lookup.read_at

\* C7 as stated: after two sequential analysis requests for the same
\* usernames, lookup of the profile returns the recommendations of the later
\* request only.
C7_Original ==
    \A q, r \in Reqs :
        (/\ q < r /\ Succeeded(q) /\ Succeeded(r) /\ SameUsernames(q, r)
         /\ LookupSaw(q) /\ LookupSaw(r)
         /\ lookup.user_id \in {user_profile[q].id, user_profile[r].id})
        => lookup.result.recommendations = recommendations[r]

\* C7 amended: lookup of a profile identifier returns the recommendations of
\* the request that created that identifier (the only record stored for it),
\* also after a later request for the same usernames; it returns the empty
\* sequence when that request's record was not stored.
C7_LookupReturnsOwnRecommendations ==
    \A r \in Reqs :
        (/\ lookup.pc = "done" /\ ~lookup.db_fault /\ lookup.result.status = 200
         /\ user_profile[r] # NotRun /\ user_profile[r].id = lookup.user_id)
        => lookup.result.recommendations =
              IF LookupSaw(r) THEN recommendations[r] ELSE <<>>

C7_Witness ==
    \E q, r \in Reqs :
        /\ q < r /\ Succeeded(q) /\ Succeeded(r) /\ SameUsernames(q, r)
        /\ LookupSaw(q) /\ LookupSaw(r)
        /\ lookup.user_id = user_profile[q].id
        /\ recommendations[q] # recommendations[r]
        /\ lookup.result.recommendations = recommendations[q]

\* C8: a lookup leaves both collections unchanged, and a lookup whose
\* identifier no request ever generated ends, when the store answers, with
\* the not-found signal 404.
C8_UnknownIdNotFound ==
    [][(lookup' # lookup) =>
          /\ user_profiles' = user_profiles
          /\ ai_recommendations' = ai_recommendations
          /\ (lookup'.pc = "done" /\ ~lookup'.db_fault /\ lookup'.user_id > uuids)
                => lookup'.result.status = 404]_vars

C8_Witness ==
    /\ lookup.pc = "done" /\ ~lookup.db_fault /\ lookup.user_id > uuids
    /\ lookup.result.status = 404
    /\ Len(user_profiles) > 0 /\ Len(ai_recommendations) > 0


\* the stored records that carry the identifier of doc
WithIdOf(coll, doc) == {i \in DOMAIN coll : coll[i].id = doc.id}

\* the store after every step: identifiers are distinct, there is one
\* recommendation record per completed request, and each completed request
\* has exactly one profile and one recommendation record, which are its own
OnePerRequest ==
    /\ \A i, j \in DOMAIN user_profiles : user_profiles[i].id = user_profiles[j].id => i = j
    /\ \A i, j \in DOMAIN ai_recommendations :
          ai_recommendations[i].id = ai_recommendations[j].id => i = j
    /\ Len(ai_recommendations) = Cardinality({r \in Reqs : Succeeded(r)})
    /\ Len(user_profiles) >= Len(ai_recommendations)
    /\ \A r \in Reqs :
          Succeeded(r) =>
              /\ Cardinality(WithIdOf(user_profiles, user_profile[r])) = 1
              /\ \A i \in WithIdOf(user_profiles, user_profile[r]) :
                    user_profiles[i] = user_profile[r]
              /\ Cardinality(WithIdOf(ai_recommendations, ai_recommendation[r])) = 1
              /\ Cardinality({i \in DOMAIN ai_recommendations :
                                ai_recommendations[i].user_id = user_profile[r].id}) = 1

\* C16: every step leaves the records already stored unchanged and adds at
\* most one record to each collection, and every request that completes has
\* inserted exactly one profile, under an identifier no other stored
\* profile carries, and exactly one recommendation record, also when an
\* earlier request supplied the same usernames.
C16_OneFreshRecordPerRequest ==
    [][/\ Len(user_profiles') \in {Len(user_profiles), Len(user_profiles) + 1}
       /\ SubSeq(user_profiles', 1, Len(user_profiles)) = user_profiles
       /\ Len(ai_recommendations') \in {Len(ai_recommendations), Len(ai_recommendations) + 1}
       /\ SubSeq(ai_recommendations', 1, Len(ai_recommendations)) = ai_recommendations
       /\ OnePerRequest']_vars

C16_Witness ==
    /\ \A r \in Reqs : Succeeded(r)
    /\ \A q, r \in Reqs : SameUsernames(q, r)
    /\ Len(user_profiles) = Cardinality(Reqs)
    /\ Len(ai_recommendations) = Cardinality(Reqs)
    /\ user_profiles[1].id # user_profiles[2].id
    /\ user_profiles[1].github_username = user_profiles[2].github_username

\* request r wrote its profile / its recommendation record in this step
WritesProfile(r) ==
    /\ Len(user_profiles') = Len(user_profiles) + 1
    /\ user_profiles'[Len(user_profiles')] = user_profile[r]
    /\ pc[r] # pc'[r]
WritesRecommendation(r) ==
    /\ Len(ai_recommendations') = Len(ai_recommendations) + 1
    /\ ai_recommendations'[Len(ai_recommendations')] = ai_recommendation[r]
    /\ pc[r] # pc'[r]

\* the stored profile with this identifier has no recommendation record
Orphaned(user_id) ==
    /\ \E i \in DOMAIN user_profiles : user_profiles[i].id = user_id
    /\ \A j \in DOMAIN ai_recommendations : ai_recommendations[j].user_id # user_id

\* C18: a request writes its profile only after its fetches and the engine
\* call are over and before its recommendation record, and writes the
\* recommendation record only with its profile stored; a lookup of a stored
\* profile that has no recommendation record (its request stopped or failed
\* between the two writes) is not answered not-found and, the store
\* answering, returns the profile with an empty recommendation sequence.
C18_ProfileBeforeRecommendation ==
    [][/\ \A r \in Reqs :
             /\ WritesProfile(r) =>
                   /\ history[r].model # NotRun
                   /\ DOMAIN history[r].nets = SuppliedNonEmpty(r)
                   /\ IndexOf(ai_recommendations', ai_recommendation'[r]) = 0
             /\ WritesRecommendation(r) => IndexOf(user_profiles, user_profile[r]) # 0
       /\ (lookup' # lookup /\ ~lookup'.db_fault /\ Orphaned(lookup'.user_id)) =>
             IF lookup'.pc = "done"
             THEN /\ lookup'.result.status = 200
                  /\ lookup'.result.profile.id = lookup'.user_id
                  /\ IndexOf(user_profiles, lookup'.result.profile) # 0
                  /\ lookup'.result.recommendations = <<>>
             ELSE lookup'.pc = "find_recommendations"]_vars

C18_Witness ==
    \E r \in Reqs :
        /\ pc[r] = "stopped"
        /\ user_profile[r] # NotRun /\ ai_recommendation[r] # NotRun
        /\ Orphaned(user_profile[r].id)
        /\ Len(ai_recommendations) > 0
        /\ lookup.pc = "done" /\ ~lookup.db_fault /\ lookup.user_id = user_profile[r].id
        /\ lookup.result.status = 200
        /\ lookup.result.profile = user_profile[r]
        /\ lookup.result.recommendations = <<>>

\* what request r's own inputs and call outcomes yield: its activity map and
\* the engine's result on it
OwnActivity(r) == [p \in SuppliedNonEmpty(r) |-> OwnSummary(r, p)]
OwnRecommendations(r) ==
    generate_recommendations(OwnActivity(r), request[r].goal, request[r].domain,
                             history[r].model)

\* both requests were in flight at once: neither had ended when the other began
Overlapped ==
    /\ \A r \in ConcurrentPair : pc[r] = "done"
    /\ \E q, r \in ConcurrentPair :
          /\ q # r /\ Succeeded(q) /\ Succeeded(r)
          /\ user_profile[q].id < user_profile[r].id
          /\ ai_recommendation[r].id < ai_recommendation[q].id

\* C19: with two requests interleaved at their awaits, each request's
\* activity map holds the summaries of its own platforms' calls alone, its
\* response is what its own inputs and call outcomes yield, the profile
\* stored for it carries its own usernames and its recommendation record
\* references its own profile and holds its own recommendations: all as in a
\* run of the request alone, identifiers and timestamps apart.
C19_RequestsIndependent ==
    \A r \in {q \in ConcurrentPair : pc[q] # "idle"} :
        /\ DOMAIN activity_data[r] \subseteq SuppliedNonEmpty(r)
        /\ \A p \in DOMAIN activity_data[r] : activity_data[r][p] = OwnSummary(r, p)
        /\ (pc[r] = "done" /\ ~history[r].db_fault) =>
              IF OwnRecommendations(r).raised
              THEN response[r] = ServerError(OwnRecommendations(r).exc)
              ELSE IF ~ValidRecommendations(OwnRecommendations(r).value)
              THEN response[r].status = 500
              ELSE /\ response[r].status = 200
                   /\ response[r].activity_data = OwnActivity(r)
                   /\ response[r].recommendations = OwnRecommendations(r).value
                   /\ response[r].user_id = user_profile[r].id
                   /\ \E i \in DOMAIN user_profiles :
                         /\ user_profiles[i].id = response[r].user_id
                         /\ \A p \in Platforms :
                               user_profiles[i][UsernameField(p)] = request[r][UsernameField(p)]
                   /\ \E i \in DOMAIN ai_recommendations :
                         /\ ai_recommendations[i].id = ai_recommendation[r].id
                         /\ ai_recommendations[i].user_id = response[r].user_id
                         /\ ai_recommendations[i].recommendations = OwnRecommendations(r).value

C19_Witness ==
    /\ Overlapped
    /\ response[1].activity_data # response[2].activity_data
    /\ response[1].recommendations # response[2].recommendations
    /\ \A r \in ConcurrentPair :
          \E i \in DOMAIN ai_recommendations :
              /\ ai_recommendations[i].user_id = user_profile[r].id
              /\ ai_recommendations[i].recommendations = response[r].recommendations

(***************************************************************************)
(* The adapters as pure functions: an invocation is drawn from bounded     *)
(* sets of network outcomes and the adapter is applied to it.              *)
(***************************************************************************)
MaxCount == 3
MaxEntries == 2
MaxSubmissions == 2
MaxRepos == 2

\* practice-site responses
LcCounts == 0..MaxCount \cup {50}
LcSubmitted == 0..MaxCount \cup {200}
LcTotalEntries ==
    {[difficulty |-> "All", count |-> c, submissions |-> n] :
        c \in LcCounts, n \in LcSubmitted}
    \cup {[difficulty |-> "All", count |-> c] : c \in LcCounts}
    \cup {[difficulty |-> "Easy", count |-> 1, submissions |-> 2]}
LcAcSubmissions ==
    {<<>>,
     <<[difficulty |-> "All", count |-> 3], [difficulty |-> "Easy", count |-> 2],
       [difficulty |-> "Unknown", count |-> 9]>>}
LcBodies ==
    {[submitStats |-> [acSubmissionNum |-> a, totalSubmissionNum |-> t]] :
        a \in LcAcSubmissions, t \in SeqsUpTo(LcTotalEntries, MaxEntries)}
    \cup {[submitStats |-> [acSubmissionNum |-> a]] : a \in LcAcSubmissions}
    \cup {[profile |-> [realName |-> "R"]], [malformed |-> TRUE]}
LeetcodeNets ==
    {[user |-> r] : r \in {NetErr, Timeout, Resp(404)} \cup {Ok(b) : b \in LcBodies}}

\* competitive-judge responses
CfSubmissions ==
    {[verdict |-> v, problem |-> [contestId |-> c, index |-> i]] :
        v \in {"OK", "WRONG_ANSWER"}, c \in {100, 101}, i \in {"A", "B"}}
    \cup {[problem |-> [contestId |-> 100, index |-> "A"]],
          [verdict |-> "OK", problem |-> [index |-> "A"]]}
CfUsers ==
    {NetErr, Resp(404), Ok([status |-> "FAILED"]), Ok([status |-> "OK", result |-> <<>>]),
     Ok([status |-> "OK", result |-> <<[handle |-> "u"]>>]),
     Ok([status |-> "OK", result |-> <<[handle |-> "u", rating |-> 900, maxRating |-> 1100]>>]),
     Ok([status |-> "OK", result |-> <<[handle |-> "u", rating |-> 1500, maxRating |-> 1600]>>])}
CfRatings ==
    {NetErr, Resp(500), Ok([status |-> "OK", result |-> <<[contestId |-> 100]>>])}
CfStatuses ==
    {NetErr, Resp(500), Ok([status |-> "FAILED"])}
    \cup {Ok([status |-> "OK", result |-> subs]) : subs \in SeqsUpTo(CfSubmissions, MaxSubmissions)}
CodeforcesNets == [user : CfUsers, rating : CfRatings, status : CfStatuses]

\* code-host responses
GhRepos ==
    {[name |-> "r", language |-> l, stargazers_count |-> n] :
        l \in {"Go", "Rust", None}, n \in {0, 2}}
    \cup {[name |-> "r"], [language |-> "Go"]}
GhUsers ==
    {NetErr, Resp(404), Ok([login |-> "u"]),
     Ok([login |-> "u", name |-> "N", public_repos |-> 3, followers |-> 1, following |-> 2])}
GhRepoCalls == {NetErr, Resp(403)} \cup {Ok(r) : r \in SeqsUpTo(GhRepos, MaxRepos)}
GhEventCalls ==
    {NetErr, Resp(403), Ok(<<>>),
     Ok(<<[type |-> "PushEvent", payload |-> [commits |-> <<"c1", "c2">>]],
          [type |-> "WatchEvent"], [type |-> "PushEvent"]>>)}
GithubNets == [user : GhUsers, repos : GhRepoCalls, events : GhEventCalls]

AdapterUsernames == {"u"}

InitAdapters ==
    /\ InitLifecycle
    /\ adResult = NotRun
    /\ \/ adCall \in [platform : {"github"}, username : AdapterUsernames, net : GithubNets]
       \/ adCall \in [platform : {"leetcode"}, username : AdapterUsernames, net : LeetcodeNets]
       \/ adCall \in [platform : {"codeforces"}, username : AdapterUsernames, net : CodeforcesNets]

RunGithub ==
    /\ adResult = NotRun /\ adCall.platform = "github"
    /\ adResult' = fetch_github_stats(adCall.username, adCall.net)
    /\ UNCHANGED <<adCall, requestVars, storeVars, lookup>>

RunLeetcode ==
    /\ adResult = NotRun /\ adCall.platform = "leetcode"
    /\ adResult' = fetch_leetcode_stats(adCall.username, adCall.net)
    /\ UNCHANGED <<adCall, requestVars, storeVars, lookup>>

RunCodeforces ==
    /\ adResult = NotRun /\ adCall.platform = "codeforces"
    /\ adResult' = fetch_codeforces_stats(adCall.username, adCall.net)
    /\ UNCHANGED <<adCall, requestVars, storeVars, lookup>>

NextAdapters == RunGithub \/ RunLeetcode \/ RunCodeforces

SpecAdapters == InitAdapters /\ [][NextAdapters]_vars

Returned(platform) ==
    adCall.platform = platform /\ adResult # NotRun /\ ~adResult.raised

\* the practice-site call answered 200 with statistics that have no 'All' entry
LcAllAbsent ==
    /\ adCall.platform = "leetcode"
    /\ adCall.net.user.kind = "resp" /\ adCall.net.user.status = 200
    /\ "malformed" \notin DOMAIN adCall.net.user.body
    /\ LET t == Get(Get(adCall.net.user.body, "submitStats", <<>>), "totalSubmissionNum", <<>>)
       IN  \A i \in DOMAIN t : ~IsAll(t[i])

\* C9 as stated: with the 'All' entry of the total-submission statistics
\* absent, the rendered acceptance_rate is "0%".
C9_Original ==
    (Returned("leetcode") /\ LcAllAbsent) => adResult.value.activity.acceptance_rate = "0%"

\* C9 amended: with the 'All' entry absent (accepted defaults to 0, submitted
\* to 1) the rate is the float 0.0 and the rendered acceptance_rate is "0.0%".
C9_AcceptanceRateAllAbsent ==
    (Returned("leetcode") /\ LcAllAbsent) => adResult.value.activity.acceptance_rate = "0.0%"

C9_Witness ==
    /\ Returned("leetcode") /\ LcAllAbsent
    /\ "error" \notin DOMAIN adResult.value
    /\ adResult.value.activity.acceptance_rate = "0.0%"

\* the retrieved submissions of a competitive-judge invocation
CfRetrieved == SecondaryResult(adCall.net.status)

\* the distinct (contestId, index) pairs of the accepted submissions
CfAcceptedPairs ==
    {<<CfRetrieved[i].problem.contestId, CfRetrieved[i].problem.index>> :
        i \in {j \in DOMAIN CfRetrieved : Get(CfRetrieved[j], "verdict", None) = "OK"}}

\* C10: problems_solved is the number of distinct contestId-index pairs among
\* the retrieved submissions whose verdict is OK; repeated accepted
\* submissions to one problem count once, other verdicts count zero.
C10_ProblemsSolvedDistinct ==
    Returned("codeforces") =>
        adResult.value.activity.problems_solved = Cardinality(CfAcceptedPairs)

C10_Witness ==
    /\ Returned("codeforces")
    /\ Len(CfRetrieved) = 2
    /\ \A i \in 1..2 : CfRetrieved[i] = [verdict |-> "OK", problem |-> [contestId |-> 100, index |-> "A"]]
    /\ adResult.value.activity.problems_solved = 1

\* a call failed: it raised, or answered with a non-success status
CallFailed(resp) == resp.kind = "neterr" \/ resp.status # 200

\* a competitive-judge secondary call failed: as above, or its body is not OK
CfCallFailed(resp) ==
    IF CallFailed(resp) THEN TRUE ELSE resp.body.status # "OK"

\* the code-host invocation whose primary call succeeded, with at least one
\* secondary call failed and nothing else wrong in what was retrieved
GhSecondaryFailure ==
    /\ adCall.platform = "github" /\ adResult # NotRun
    /\ ~CallFailed(adCall.net.user)
    /\ CallFailed(adCall.net.repos) \/ CallFailed(adCall.net.events)
    /\ CallFailed(adCall.net.repos)
          \/ \A i \in DOMAIN adCall.net.repos.body : "name" \in DOMAIN adCall.net.repos.body[i]

\* the same for the competitive-judge invocation
CfSecondaryFailure ==
    /\ adCall.platform = "codeforces" /\ adResult # NotRun
    /\ ~CfCallFailed(adCall.net.user) /\ adCall.net.user.body.result # <<>>
    /\ CfCallFailed(adCall.net.rating) \/ CfCallFailed(adCall.net.status)
    /\ CfCallFailed(adCall.net.status)
          \/ \A i \in DOMAIN adCall.net.status.body.result :
                IsAccepted(adCall.net.status.body.result[i])
                    => HasProblemKeys(adCall.net.status.body.result[i])

\* C13: a failure of a secondary call (repositories, events; rating history,
\* submissions) yields a successful summary with that call's data empty,
\* never a hard failure of the adapter.
C13_SecondaryDegrades ==
    /\ GhSecondaryFailure =>
          /\ ~adResult.raised
          /\ CallFailed(adCall.net.repos) =>
                /\ adResult.value.activity.total_stars = 0
                /\ adResult.value.activity.top_languages = <<>>
                /\ adResult.value.activity.recent_repos = <<>>
          /\ CallFailed(adCall.net.events) => adResult.value.activity.recent_commits = 0
    /\ CfSecondaryFailure =>
          /\ ~adResult.raised
          /\ CfCallFailed(adCall.net.rating) =>
                adResult.value.activity.contests_participated = 0
          /\ CfCallFailed(adCall.net.status) =>
                /\ adResult.value.activity.total_submissions = 0
                /\ adResult.value.activity.problems_solved = 0
                /\ adResult.value.activity.recent_activity = "Inactive"

\* the practice-site invocation failed: the call raised, answered with a
\* non-success status, or answered with a body that is not a JSON object
LcFailure ==
    /\ adCall.platform = "leetcode" /\ adResult # NotRun
    /\ IF CallFailed(adCall.net.user) THEN TRUE
       ELSE "malformed" \in DOMAIN adCall.net.user.body

\* C14 as stated: on any failure the adapter returns a summary with a
\* non-empty error field and a placeholder profile holding only the username.
C14_Original ==
    LcFailure =>
        /\ ~adResult.raised
        /\ "error" \in DOMAIN adResult.value
        /\ adResult.value.error # ""
        /\ adResult.value.profile = [username |-> adCall.username]

\* C14 amended: the adapter never raises; on any failure it returns a
\* summary with an error field (the exception's text, which is empty exactly
\* when the exception has none, as for the client's timeout), a placeholder
\* profile holding only the username and an activity holding only a note;
\* without a failure the summary has no error field.
C14_NeverRaises ==
    (adCall.platform = "leetcode" /\ adResult # NotRun) =>
        /\ ~adResult.raised
        /\ LcFailure <=> "error" \in DOMAIN adResult.value
        /\ LcFailure =>
              /\ adResult.value.error = "" <=> "timeout" \in DOMAIN adCall.net.user
              /\ adResult.value.profile = [username |-> adCall.username]
              /\ adResult.value.activity = [note |-> "Unable to fetch LeetCode data"]

C14_Witness ==
    /\ LcFailure
    /\ ~adResult.raised
    /\ adCall.net.user = Resp(404)
    /\ adResult.value.error = "404: LeetCode user u not found"
    /\ adResult.value.profile = [username |-> "u"]

\* C15: whatever is missing in a successful code-host response, no field of
\* the summary is null: the text fields of the profile and the language of
\* each recent repository hold a value, the counters hold a number.
C15_NoNullInSummary ==
    Returned("github") =>
        LET profile == adResult.value.profile
            activity == adResult.value.activity
        IN  /\ profile.name # None
            /\ profile.created_at # None
            /\ profile.bio # None
            /\ {profile.public_repos, profile.followers, profile.following,
                activity.total_stars, activity.recent_commits} \subseteq Nat
            /\ \A i \in DOMAIN activity.recent_repos : activity.recent_repos[i].language # None

(***************************************************************************)
(* The code-host adapter over longer repository lists: the repositories    *)
(* carry a language or none, the other calls answer with nothing.          *)
(***************************************************************************)
MaxLangRepos == 4

LangNames == {"Go", "Rust", "Python", "C", "Java", "Ruby"}
LangRepos == {[name |-> "r", language |-> l] : l \in LangNames}

\* a repository list with the counts Go:3, Rust:5, Python:5 and one
\* repository without a language
ExampleRepos ==
    <<[name |-> "r", language |-> "Go"], [name |-> "r", language |-> "Rust"],
      [name |-> "r", language |-> "Python"], [name |-> "r", language |-> "Rust"],
      [name |-> "r"], [name |-> "r", language |-> "Python"],
      [name |-> "r", language |-> "Go"], [name |-> "r", language |-> "Python"],
      [name |-> "r", language |-> "Rust"], [name |-> "r", language |-> "Rust"],
      [name |-> "r", language |-> "Python"], [name |-> "r", language |-> "Go"],
      [name |-> "r", language |-> "Python"], [name |-> "r", language |-> "Rust"]>>

\* the first repositories of a list: none, three languages once each, or
\* three languages with one of them twice
LangPrefixes ==
    {<<>>,
     <<[name |-> "r", language |-> "C"], [name |-> "r", language |-> "Java"],
       [name |-> "r", language |-> "Ruby"]>>,
     <<[name |-> "r", language |-> "Ruby"], [name |-> "r", language |-> "C"],
       [name |-> "r", language |-> "Ruby"], [name |-> "r", language |-> "Java"]>>}

\* a prefix followed by at most MaxLangRepos repositories of any language
LangRepoLists ==
    {pre \o suf : pre \in LangPrefixes, suf \in SeqsUpTo(LangRepos, MaxLangRepos)}
    \cup {ExampleRepos}

InitLanguages ==
    /\ InitLifecycle
    /\ adResult = NotRun
    /\ adCall \in [platform : {"github"}, username : AdapterUsernames,
                   net : [user : {Ok([login |-> "u"])},
                          repos : {Ok(r) : r \in LangRepoLists},
                          events : {Ok(<<>>)}]]

NextLanguages == RunGithub

SpecLanguages == InitLanguages /\ [][NextLanguages]_vars

\* the repositories the code-host invocation retrieved
GhRetrieved == GithubSecondary(adCall.net.repos)

\* the languages the repositories carry, how many repositories carry each,
\* and the position of the first repository carrying it
GhLanguagesSeen ==
    {GhRetrieved[i].language : i \in {j \in DOMAIN GhRetrieved : HasLanguage(GhRetrieved[j])}}
GhRepoCount(lang) ==
    Cardinality({i \in DOMAIN GhRetrieved : Get(GhRetrieved[i], "language", None) = lang})
GhFirstSeen(lang) ==
    CHOOSE i \in DOMAIN GhRetrieved :
        /\ Get(GhRetrieved[i], "language", None) = lang
        /\ \A j \in 1..(i - 1) : Get(GhRetrieved[j], "language", None) # lang

\* language a ranks before language b: more repositories, or as many and seen first
GhRanksBefore(a, b) ==
    \/ GhRepoCount(a) > GhRepoCount(b)
    \/ GhRepoCount(a) = GhRepoCount(b) /\ GhFirstSeen(a) < GhFirstSeen(b)

\* the counts Go:3, Rust:5, Python:5 give Rust, Python, Go
GhExampleRanked ==
    (Returned("github") /\ GhRetrieved = ExampleRepos) =>
        adResult.value.activity.top_languages =
            <<[language |-> "Rust", count |-> 5], [language |-> "Python", count |-> 5],
              [language |-> "Go", count |-> 3]>>

\* C11: top_languages holds at most 5 languages, each with its repository
\* count, ordered by descending count, languages of equal count in the order
\* of their first appearance in the repository list; a language left out
\* ranks after every language kept (the counts Go:3, Rust:5, Python:5 give
\* Rust, Python, Go).
C11_TopLanguagesOrdered ==
    /\ GhExampleRanked
    /\ Returned("github") =>
        LET top == adResult.value.activity.top_languages
        IN  /\ Len(top) <= 5
            /\ Len(top) = IF Cardinality(GhLanguagesSeen) < 5
                          THEN Cardinality(GhLanguagesSeen) ELSE 5
            /\ \A i \in DOMAIN top :
                  /\ top[i].language \in GhLanguagesSeen
                  /\ top[i].count = GhRepoCount(top[i].language)
            /\ \A i, j \in DOMAIN top :
                  i < j => GhRanksBefore(top[i].language, top[j].language)
            /\ \A lang \in GhLanguagesSeen :
                  (\A i \in DOMAIN top : top[i].language # lang) =>
                      \A i \in DOMAIN top : GhRanksBefore(top[i].language, lang)

\* six languages, the later ones with more repositories or tied: one is cut
C11_Witness ==
    /\ Returned("github")
    /\ Cardinality(GhLanguagesSeen) = 6
    /\ Len(adResult.value.activity.top_languages) = 5
    /\ \E i \in 1..4 :
          LET top == adResult.value.activity.top_languages
          IN  /\ top[i].count = top[i + 1].count
              /\ GhFirstSeen(top[i].language) < GhFirstSeen(top[i + 1].language)

====
